---- MODULE Spec2Model ----
(***************************************************************************)
(* A model of EPUBToHTMLConverter (src/epub_to_html_converter.py): one     *)
(* conversion run of convert(), from the constructed converter to the      *)
(* returned list of chapter files or to the re-raised exception.           *)
(*                                                                         *)
(* Strings are TLA+ strings; a path or an archive item name is the         *)
(* sequence of its "/"-separated segments, so that two names are equal     *)
(* exactly when the strings are.  An optional value (None in the source)   *)
(* is the empty sequence, a present value v is <<v>>.                      *)
(***************************************************************************)
EXTENDS Integers, Sequences, FiniteSets, TLC

(***************************************************************************)
(* Bounds of the model.                                                    *)
(***************************************************************************)
MaxItems == 3

(***************************************************************************)
(* Optional values.                                                        *)
(***************************************************************************)
None == <<>>

Some(v) == <<v>>

(***************************************************************************)
(* The archives that are loaded.  An item has a kind (ebooklib's item      *)
(* type: "document" = ITEM_DOCUMENT, "image" = ITEM_IMAGE, "cover" = an    *)
(* EpubCover, whose type is ITEM_COVER), a name, and, for a document, what *)
(* its markup holds: whether the bytes decode as UTF-8, the text of the    *)
(* first h1, h2 and title element, whether an html, head and body element, *)
(* a link to style.css and a viewport meta element are present, and the    *)
(* references of its img (src) and SVG image (xlink:href) elements.        *)
(***************************************************************************)
NoMarkup ==
    [decodes |-> TRUE, h1 |-> None, h2 |-> None, title |-> None,
     html |-> FALSE, head |-> FALSE, body |-> FALSE,
     csslink |-> FALSE, viewport |-> FALSE, img |-> <<>>, svg |-> <<>>]

FooPng == <<"images", "foo.png">>

CoverPng == <<"cover.png">>

ImageItems ==
    { [kind |-> "image", name |-> FooPng, markup |-> NoMarkup],
      [kind |-> "image", name |-> CoverPng, markup |-> NoMarkup] }

CoverItems ==
    { [kind |-> "cover", name |-> <<"titlepage.jpg">>, markup |-> NoMarkup] }

DocumentItems ==
    { \* a fragment with a heading and image references, one of them to no item
      [kind |-> "document", name |-> <<"intro.xhtml">>,
       markup |-> [NoMarkup EXCEPT !.h1 = Some("Intro"),
                                   !.img = <<FooPng, <<"missing.png">> >>,
                                   !.svg = <<CoverPng, <<".", "cover.png">> >>]],
      \* a fragment with no h1, h2 or title element
      [kind |-> "document", name |-> <<"plain.xhtml">>,
       markup |-> [NoMarkup EXCEPT !.img = <<FooPng>>]],
      \* bytes that are not UTF-8
      [kind |-> "document", name |-> <<"latin1.xhtml">>,
       markup |-> [NoMarkup EXCEPT !.decodes = FALSE]],
      \* a complete page: h2 wins over title
      [kind |-> "document", name |-> <<"full.xhtml">>,
       markup |-> [NoMarkup EXCEPT !.h2 = Some("Part Two"), !.title = Some("Two"),
                                   !.html = TRUE, !.head = TRUE, !.body = TRUE,
                                   !.csslink = TRUE, !.viewport = TRUE]],
      \* an html element with a body but no head, and an empty h1
      [kind |-> "document", name |-> <<"nohead.xhtml">>,
       markup |-> [NoMarkup EXCEPT !.h1 = Some(""), !.html = TRUE, !.body = TRUE]],
      \* an html element with a head but no body
      [kind |-> "document", name |-> <<"nobody.xhtml">>,
       markup |-> [NoMarkup EXCEPT !.title = Some("Notes"),
                                   !.html = TRUE, !.head = TRUE]] }

Items == ImageItems \cup CoverItems \cup DocumentItems

\* item names are unique within a book
Books ==
    { b \in UNION { [1..n -> Items] : n \in 0..MaxItems } :
        \A i, j \in 1..Len(b) : b[i].name = b[j].name => i = j }

\* the output directory, as an absolute path: the segments below the root
OutputDirs == { <<"out">> }

(***************************************************************************)
(* The state.                                                              *)
(***************************************************************************)
VARIABLES
    output_dir,       \* self.output_dir
    insertsContents,  \* the installed bs4 inserts a BeautifulSoup object's
                      \* children (TRUE) or the object itself (FALSE)
    pc,               \* where convert() is
    book,             \* self.book: the items of the archive, None before loading
    image_index,      \* _save_images: image items visited so far
    images,           \* self.images: item name -> output-relative path
    cover_path,       \* convert's cover_path
    chapter_count,    \* convert's chapter_count
    chapters,         \* convert's chapters: <<title, chapter_count>> records
    generated_files,  \* convert's generated_files
    fs,               \* the files that exist below the filesystem root
    pages,            \* path -> the page that was written there completely
    toc,              \* the entries of index.html as written
    error,            \* the exception convert() re-raised: where it came from
    log               \* logger.info / logger.error records of the item loop

vars == <<output_dir, insertsContents, pc, book, image_index, images, cover_path,
          chapter_count, chapters, generated_files, fs, pages, toc, error, log>>

(***************************************************************************)
(* String and path helpers.                                                *)
(***************************************************************************)
DigitChars == <<"0", "1", "2", "3", "4", "5", "6", "7", "8", "9">>

RECURSIVE Dec(_)
\* str(n) / f"{n}" for n >= 0
Dec(n) ==
    IF n < 10 THEN DigitChars[n + 1]
    ELSE Dec(n \div 10) \o DigitChars[(n % 10) + 1]

\* a bug: the sequence number formatted without zero padding
Pad3Unpadded(n) == Dec(n)

\* f"{n:03d}" for n >= 0
Pad3(n) ==
    IF n < 10 THEN "00" \o Dec(n)
    ELSE IF n < 100 THEN "0" \o Dec(n)
    ELSE Dec(n)

\* f"chapter_{n:03d}.html"
ChapterFileName(n) == "chapter_" \o Pad3(n) \o ".html"

\* os.path.join(a, b) for a relative b
PathJoin(a, b) == a \o b

\* os.path.dirname
DirName(p) == IF Len(p) = 0 THEN <<>> ELSE SubSeq(p, 1, Len(p) - 1)

\* os.path.splitext(name)[1], on the names of the archives above
SplitExt(name) ==
    CASE name[Len(name)] \in {"cover.png", "foo.png", "missing.png"} -> ".png"
      [] name[Len(name)] = "titlepage.jpg" -> ".jpg"
      [] OTHER -> ".xhtml"

\* name.lower().endswith(('cover.jpg', 'cover.jpeg', 'cover.png')): the suffixes
\* hold no "/", so the last segment decides; on the names of the archives
\* above it ends so exactly when it is one of the three
EndsWithCover(name) ==
    /\ Len(name) > 0
    /\ name[Len(name)] \in {"cover.jpg", "cover.jpeg", "cover.png"}

\* with open(path, mode) as f: f.write(data), on the files f: opening fails
\* ("open": nothing changes), or the file is created or truncated and the
\* write fails ("write"), or the data is written ("ok")
WriteFile(f, path, outcome) ==
    IF outcome = "open" THEN f
    ELSE [p \in DOMAIN f \cup {path} |->
            IF p = path THEN (IF outcome = "ok" THEN "complete" ELSE "partial")
            ELSE f[p]]

WriteOutcomes == {"ok", "open", "write"}

\* [item for item in book.get_items() if item.get_type() == kind]
ItemsOfKind(b, kind) == SelectSeq(b, LAMBDA item : item.kind = kind)

Init ==
    /\ output_dir \in OutputDirs
    /\ insertsContents \in BOOLEAN
    /\ pc = "load"
    /\ book = None
    /\ image_index = 0
    /\ images = [n \in {} |-> <<>>]
    /\ cover_path = None
    /\ chapter_count = 0
    /\ chapters = <<>>
    /\ generated_files = <<>>
    /\ fs = [p \in {} |-> "complete"]
    /\ pages = [p \in {} |-> <<>>]
    /\ toc = None
    /\ error = None
    /\ log = <<>>

\* the outer except clause of convert(): log and re-raise
Raise(where) ==
    /\ pc' = "raised"
    /\ error' = Some(where)

\* self.book = epub.read_epub(self.epub_path)
ReadEpub ==
    /\ pc = "load"
    /\ \/ /\ \E b \in Books : book' = Some(b)
          /\ pc' = "images"
          /\ UNCHANGED error
       \/ /\ Raise("read_epub")
          /\ UNCHANGED book
    /\ UNCHANGED <<output_dir, insertsContents, image_index, images, cover_path,
                   chapter_count, chapters, generated_files, fs, pages, toc, log>>

\* a bug: the name recorded before the bytes are written
ImagesRecordedBeforeWrite(map, image_name, image_path, outcome) ==
    [n \in DOMAIN map \cup {image_name} |->
        IF n = image_name THEN image_path ELSE map[n]]

\* _save_images: self.images after the try block of one image item
ImagesAfterSave(map, image_name, image_path, outcome) ==
    IF outcome = "ok"
    THEN [n \in DOMAIN map \cup {image_name} |->
            IF n = image_name THEN image_path ELSE map[n]]
    ELSE map

\* _save_images: what can happen in the try block of one image item
SaveOutcomes(image_name) ==
    WriteOutcomes \cup (IF DirName(image_name) # <<>> THEN {"makedirs"} ELSE {})

\* _save_images: one iteration of the loop, for the next image item
SaveImage ==
    /\ pc = "images"
    /\ image_index < Len(ItemsOfKind(book[1], "image"))
    /\ LET item == ItemsOfKind(book[1], "image")[image_index + 1]
           image_name == item.name
           image_path == PathJoin(<<"images">>, image_name)
           full_path == PathJoin(output_dir, image_path)
       IN \E outcome \in SaveOutcomes(image_name) :
            /\ fs' = IF outcome = "makedirs" THEN fs
                     ELSE WriteFile(fs, full_path, outcome)
            /\ images' = ImagesAfterSave(images, image_name, image_path, outcome)
            /\ log' = Append(log,
                        IF outcome = "ok"
                        THEN <<"info", "Saved image", image_path>>
                        ELSE <<"error", "Error saving image", image_name>>)
    /\ image_index' = image_index + 1
    /\ UNCHANGED <<output_dir, insertsContents, pc, book, cover_path, chapter_count,
                   chapters, generated_files, pages, toc, error>>

\* _extract_cover: the first item that is the cover, if any
CoverCandidates(b) ==
    SelectSeq(b, LAMBDA item : item.kind = "cover" \/ EndsWithCover(item.name))

\* cover_path = self._extract_cover(), once _save_images has returned
ExtractCover ==
    /\ pc = "images"
    /\ image_index = Len(ItemsOfKind(book[1], "image"))
    /\ LET found == CoverCandidates(book[1])
       IN IF found = <<>>
          THEN /\ cover_path' = None
               /\ UNCHANGED fs
          ELSE LET path == PathJoin(<<"images">>, <<"cover" \o SplitExt(found[1].name)>>)
               IN \E outcome \in WriteOutcomes :
                    /\ fs' = WriteFile(fs, PathJoin(output_dir, path), outcome)
                    /\ cover_path' = IF outcome = "ok" THEN Some(path) ELSE None
    /\ pc' = "stylesheet"
    /\ UNCHANGED <<output_dir, insertsContents, book, image_index, images,
                   chapter_count, chapters, generated_files, pages, toc, error, log>>

\* css_file = self._create_stylesheet()
CreateStylesheet ==
    /\ pc = "stylesheet"
    /\ \E outcome \in WriteOutcomes :
         /\ fs' = WriteFile(fs, PathJoin(output_dir, <<"style.css">>), outcome)
         /\ IF outcome = "ok"
            THEN pc' = "items" /\ UNCHANGED error
            ELSE Raise("_create_stylesheet")
    /\ UNCHANGED <<output_dir, insertsContents, book, image_index, images, cover_path,
                   chapter_count, chapters, generated_files, pages, toc, log>>

(***************************************************************************)
(* The item loop of convert().                                             *)
(***************************************************************************)
\* a bug: the asset path used without the "../" prefix
RewriteRefNoPrefix(ref, map) ==
    IF ref # <<>> /\ ref \in DOMAIN map THEN map[ref] ELSE ref

\* _process_images_in_content: the new value of one image reference
RewriteRef(ref, map) ==
    IF ref # <<>> /\ ref \in DOMAIN map THEN <<"..">> \o map[ref] ELSE ref

\* _process_images_in_content: the markup with the references of its SVG image
\* and img elements rewritten
ProcessImagesInContent(m, map) ==
    [m EXCEPT !.svg = [i \in DOMAIN m.svg |-> RewriteRef(m.svg[i], map)],
              !.img = [i \in DOMAIN m.img |-> RewriteRef(m.img[i], map)]]

\* _extract_title: the text of the first h1, else h2, else title element
ExtractTitle(m) ==
    IF m.h1 # None THEN m.h1
    ELSE IF m.h2 # None THEN m.h2
    ELSE IF m.title # None THEN m.title
    ELSE None

\* a bug: "<=" for "<" in the test for the last chapter
CreateNavigationOffByOne(current_index, total_chapters) ==
    LET prev_link == IF current_index > 1
                     THEN ChapterFileName(current_index - 1) ELSE "index.html"
        next_link == IF current_index <= total_chapters
                     THEN ChapterFileName(current_index + 1) ELSE "index.html"
    IN [class |-> "navigation", links |-> <<prev_link, "index.html", next_link>>]

\* _create_navigation: the three links of the navigation div
CreateNavigation(current_index, total_chapters) ==
    LET prev_link == IF current_index > 1
                     THEN ChapterFileName(current_index - 1) ELSE "index.html"
        next_link == IF current_index < total_chapters
                     THEN ChapterFileName(current_index + 1) ELSE "index.html"
    IN [class |-> "navigation", links |-> <<prev_link, "index.html", next_link>>]

\* the div that convert() wraps the body's children in
ContentDiv == [class |-> "chapter-content", links |-> <<>>]

\* bs4's Tag.insert(position, new_child) for the parsed navigation nav_soup, on
\* st = the body's children and what nav_soup still holds.  A bs4 that inserts
\* a BeautifulSoup object's contents moves each child of nav_soup into the
\* body; an older one inserts nav_soup itself, taking it out of the body first
\* when the body is already its parent.
TagInsert(st, position, flat) ==
    IF flat
    THEN [children |-> SubSeq(st.children, 1, position) \o st.contents
                       \o SubSeq(st.children, position + 1, Len(st.children)),
          contents |-> <<>>,
          node |-> st.node]
    ELSE LET isNav(c) == c = st.node
             attached == \E i \in DOMAIN st.children : isNav(st.children[i])
             current_index == CHOOSE i \in DOMAIN st.children : isNav(st.children[i])
             pos == IF attached /\ current_index - 1 < position
                    THEN position - 1 ELSE position
             rest == SelectSeq(st.children, LAMBDA c : ~isNav(c))
             at == IF pos < Len(rest) THEN pos ELSE Len(rest)
         IN [children |-> SubSeq(rest, 1, at) \o <<st.node>>
                          \o SubSeq(rest, at + 1, Len(rest)),
             contents |-> st.contents,
             node |-> st.node]

\* soup.body.insert(0, nav_soup); soup.body.append(nav_soup)
AddNavigation(children, nav, flat) ==
    LET st0 == [children |-> children, contents |-> <<nav>>, node |-> nav]
        st1 == TagInsert(st0, 0, flat)
        st2 == TagInsert(st1, Len(st1.children), flat)
    IN st2.children

\* a bug: an inner except clause that catches I/O errors only
CaughtIOErrorOnly(step) == step \in {"open", "write"}

\* does the inner except clause of the item loop (except Exception) catch a
\* failure of the given step
Caught(step) == TRUE

\* the try block of one document item up to the file name: the step that
\* raised ("" if none), the chapter record appended before it, and the page
ItemResult(item, count, total_chapters, map, flat) ==
    LET raw == item.markup
        content == ProcessImagesInContent(raw, map)
        chapter_title == ExtractTitle(content)
        record == <<chapter_title, count>>
        soup == IF content.html THEN content
                ELSE [content EXCEPT !.html = TRUE, !.head = TRUE, !.body = TRUE]
        needs_head == ~soup.csslink \/ ~soup.viewport \/ soup.title = None
        page_title == IF soup.title # None THEN soup.title[1]
                      ELSE IF chapter_title # None /\ chapter_title[1] # ""
                           THEN chapter_title[1]
                           ELSE "Chapter " \o Dec(count)
        body == IF soup.body
                THEN AddNavigation(<<ContentDiv>>,
                                   CreateNavigation(count, total_chapters), flat)
                ELSE <<>>
        page == [item |-> item.name, title |-> page_title, body |-> body,
                 svg |-> soup.svg, img |-> soup.img]
    IN IF ~raw.decodes
       THEN [raised |-> "decode", records |-> <<>>, page |-> None]
       ELSE IF needs_head /\ ~soup.head
       THEN [raised |-> "head", records |-> <<record>>, page |-> None]
       ELSE [raised |-> "", records |-> <<record>>, page |-> Some(page)]

\* one iteration of "for item in document_items"
ProcessItem ==
    /\ pc = "items"
    /\ chapter_count < Len(ItemsOfKind(book[1], "document"))
    /\ LET document_items == ItemsOfKind(book[1], "document")
           total_chapters == Len(document_items)
           count == chapter_count + 1
           item == document_items[count]
           res == ItemResult(item, count, total_chapters, images, insertsContents)
           filename == ChapterFileName(count)
           file_path == PathJoin(output_dir, <<filename>>)
           failed(step) ==
               IF Caught(step)
               THEN /\ log' = Append(log, <<"error", "Error processing chapter",
                                           <<Dec(count)>> >>)
                    /\ UNCHANGED <<pc, error>>
               ELSE /\ Raise("item")
                    /\ UNCHANGED log
       IN /\ chapter_count' = count
          /\ chapters' = chapters \o res.records
          /\ IF res.raised # ""
             THEN /\ failed(res.raised)
                  /\ UNCHANGED <<fs, pages, generated_files>>
             ELSE \E outcome \in WriteOutcomes :
                    /\ fs' = WriteFile(fs, file_path, outcome)
                    /\ IF outcome = "ok"
                       THEN /\ pages' = [p \in DOMAIN pages \cup {file_path} |->
                                           IF p = file_path THEN res.page[1]
                                           ELSE pages[p]]
                            /\ generated_files' = Append(generated_files, file_path)
                            /\ log' = Append(log, <<"info", "Created HTML file",
                                                   <<filename>> >>)
                            /\ UNCHANGED <<pc, error>>
                       ELSE /\ failed(outcome)
                            /\ UNCHANGED <<pages, generated_files>>
    /\ UNCHANGED <<output_dir, insertsContents, book, image_index, images,
                   cover_path, toc>>

\* _create_toc: the list entries of index.html
TocEntries(chs) ==
    [idx \in 1..Len(chs) |->
        LET title == chs[idx][1]
            clean_title == IF title # None /\ title[1] # ""
                           THEN title[1] ELSE "Chapter " \o Dec(idx)
        IN [href |-> ChapterFileName(idx), text |-> clean_title]]

\* self._create_toc(chapters, cover_path) and the return of generated_files
CreateToc ==
    /\ pc = "items"
    /\ chapter_count = Len(ItemsOfKind(book[1], "document"))
    /\ \E outcome \in WriteOutcomes :
         /\ fs' = WriteFile(fs, PathJoin(output_dir, <<"index.html">>), outcome)
         /\ IF outcome = "ok"
            THEN /\ toc' = Some([cover |-> cover_path, entries |-> TocEntries(chapters)])
                 /\ pc' = "done"
                 /\ UNCHANGED error
            ELSE /\ Raise("_create_toc")
                 /\ UNCHANGED toc
    /\ UNCHANGED <<output_dir, insertsContents, book, image_index, images, cover_path,
                   chapter_count, chapters, generated_files, pages, log>>

Next ==
    \/ ReadEpub
    \/ SaveImage
    \/ ExtractCover
    \/ CreateStylesheet
    \/ ProcessItem
    \/ CreateToc

Spec == Init /\ [][Next]_vars
(***************************************************************************)
(* Vocabulary of the properties.                                           *)
(***************************************************************************)
Loaded == book # None

Returned == pc = "done"

\* the document items of the loaded archive, in enumeration order
Documents == ItemsOfKind(book[1], "document")

\* the file names the specification writes out for the first chapters
ChapterNames ==
    <<"chapter_001.html", "chapter_002.html", "chapter_003.html",
      "chapter_004.html", "chapter_005.html", "chapter_006.html">>

ChapterTitles ==
    <<"Chapter 1", "Chapter 2", "Chapter 3", "Chapter 4", "Chapter 5", "Chapter 6">>

\* where the page of the document item with sequence number i is written
ChapterPath(i) == output_dir \o <<ChapterNames[i]>>

Written(i) == ChapterPath(i) \in DOMAIN pages

Range(seq) == { seq[k] : k \in DOMAIN seq }

\* the log records of the item loop
ItemLog ==
    SelectSeq(log, LAMBDA e : e[2] \in {"Created HTML file", "Error processing chapter"})

ItemErrors == SelectSeq(log, LAMBDA e : e[2] = "Error processing chapter")

Untitled(m) == m.h1 = None /\ m.h2 = None /\ m.title = None

RECURSIVE Resolve(_, _)
\* a relative reference resolved against a directory, as a browser does
Resolve(dir, ref) ==
    IF ref = <<>> THEN dir
    ELSE IF ref[1] = ".." THEN Resolve(DirName(dir), Tail(ref))
    ELSE IF ref[1] = "." THEN Resolve(dir, Tail(ref))
    ELSE Resolve(Append(dir, ref[1]), Tail(ref))

NavigationNodes(body) == SelectSeq(body, LAMBDA c : c.class = "navigation")

(***************************************************************************)
(* C1: when every one of the N document items is assembled and written,    *)
(* convert() returns exactly N paths, the i-th being chapter_00i.html of   *)
(* the i-th document item, and index.html lists exactly N entries, the     *)
(* i-th linking to chapter_00i.html and made from the i-th item.           *)
(***************************************************************************)
C1_AllAssembled ==
    (Returned /\ ItemErrors = <<>>) =>
        /\ Len(generated_files) = Len(Documents)
        /\ Len(toc[1].entries) = Len(Documents)
        /\ \A i \in 1..Len(Documents) :
             /\ generated_files[i] = ChapterPath(i)
             /\ Written(i)
             /\ pages[ChapterPath(i)].item = Documents[i].name
             /\ toc[1].entries[i].href = ChapterNames[i]
             /\ LET t == ExtractTitle(Documents[i].markup)
                IN toc[1].entries[i].text =
                     IF t # None /\ t[1] # "" THEN t[1] ELSE ChapterTitles[i]

C1_Witness ==
    /\ Returned
    /\ ItemErrors = <<>>
    /\ Len(Documents) = 3
    /\ Len(generated_files) = 3

(***************************************************************************)
(* C2: in the page of sequence number i out of N, every navigation         *)
(* fragment links to index.html as previous when i = 1 and to the page of  *)
(* i-1 otherwise, to index.html as next when i = N and to the page of i+1  *)
(* otherwise, and to index.html as the table of contents.                  *)
(***************************************************************************)
C2_Navigation ==
    Loaded =>
        \A i \in 1..Len(Documents) :
            Written(i) =>
                LET nav == NavigationNodes(pages[ChapterPath(i)].body)
                    prev == IF i = 1 THEN "index.html" ELSE ChapterNames[i - 1]
                    next == IF i = Len(Documents) THEN "index.html"
                            ELSE ChapterNames[i + 1]
                IN \A k \in DOMAIN nav : nav[k].links = <<prev, "index.html", next>>

C2_Witness ==
    /\ Returned
    /\ Len(Documents) = 3
    /\ \A i \in 1..3 :
         Written(i) /\ NavigationNodes(pages[ChapterPath(i)].body) # <<>>

(***************************************************************************)
(* C3: the only exceptions that leave convert() come from loading the      *)
(* archive, writing the stylesheet or writing index.html, never from a     *)
(* document item; each item visited so far was handled under its own       *)
(* sequence number (a page of that item at chapter_00i.html, or an error   *)
(* record for chapter i); convert() returns only after every item was      *)
(* visited and index.html written; and with exactly one failing item it    *)
(* returns N-1 paths.                                                      *)
(***************************************************************************)
C3_ItemFailureContained ==
    /\ pc = "raised" => error[1] \in {"read_epub", "_create_stylesheet", "_create_toc"}
    /\ Loaded =>
         /\ Len(ItemLog) = chapter_count
         /\ \A i \in 1..chapter_count :
              \/ /\ ItemLog[i] = <<"info", "Created HTML file", <<ChapterNames[i]>> >>
                 /\ Written(i)
                 /\ pages[ChapterPath(i)].item = Documents[i].name
                 /\ ChapterPath(i) \in Range(generated_files)
              \/ /\ ItemLog[i][1] = "error"
                 /\ ~Written(i)
                 /\ ChapterPath(i) \notin Range(generated_files)
    /\ Returned =>
         /\ chapter_count = Len(Documents)
         /\ toc # None
         /\ output_dir \o <<"index.html">> \in DOMAIN fs
         /\ fs[output_dir \o <<"index.html">>] = "complete"
         /\ Len(generated_files) = Len(Documents) - Len(ItemErrors)

C3_Witness ==
    /\ Returned
    /\ Len(Documents) = 3
    /\ Len(ItemErrors) = 1
    /\ ~Written(1)
    /\ Written(2)
    /\ Written(3)
    /\ Len(generated_files) = 2

(***************************************************************************)
(* C4, as claimed: a written page whose document item, of sequence number  *)
(* seq, has no h1, h2 or title element is titled "Chapter seq", and the    *)
(* entry of index.html made from its chapter record reads "Chapter seq".   *)
(***************************************************************************)
C4_DefaultTitle ==
    Returned =>
        \A seq \in 1..Len(Documents) :
            (Untitled(Documents[seq].markup) /\ Written(seq)) =>
                /\ pages[ChapterPath(seq)].title = ChapterTitles[seq]
                /\ \A k \in DOMAIN chapters :
                     chapters[k][2] = seq =>
                        toc[1].entries[k].text = ChapterTitles[seq]

(***************************************************************************)
(* C5, as claimed: when images/foo.png is a key of the asset map, a        *)
(* reference to it in a written page has become ../images/foo.png.         *)
(***************************************************************************)
C5_RewrittenAsClaimed ==
    Loaded =>
        \A i \in 1..Len(Documents) :
            Written(i) =>
                LET m == Documents[i].markup
                    page == pages[ChapterPath(i)]
                IN /\ \A k \in DOMAIN m.img :
                        (m.img[k] = FooPng /\ FooPng \in DOMAIN images) =>
                            page.img[k] = <<"..", "images", "foo.png">>
                   /\ \A k \in DOMAIN m.svg :
                        (m.svg[k] = FooPng /\ FooPng \in DOMAIN images) =>
                            page.svg[k] = <<"..", "images", "foo.png">>

(***************************************************************************)
(* C5, amended: a reference (src or xlink:href) that is a key of the asset *)
(* map becomes "../images/" followed by the item name, so a reference to   *)
(* the item images/foo.png becomes ../images/images/foo.png; a reference   *)
(* that is no key of the map is left as it was.                            *)
(***************************************************************************)
C5_Rewritten ==
    Loaded =>
        \A i \in 1..Len(Documents) :
            Written(i) =>
                LET m == Documents[i].markup
                    page == pages[ChapterPath(i)]
                    expected(ref) == IF ref \in DOMAIN images
                                     THEN <<"..", "images">> \o ref ELSE ref
                IN /\ DOMAIN page.img = DOMAIN m.img
                   /\ DOMAIN page.svg = DOMAIN m.svg
                   /\ \A k \in DOMAIN m.img : page.img[k] = expected(m.img[k])
                   /\ \A k \in DOMAIN m.svg : page.svg[k] = expected(m.svg[k])
                   /\ \A k \in DOMAIN m.img :
                        (m.img[k] = FooPng /\ FooPng \in DOMAIN images) =>
                            page.img[k] = <<"..", "images", "images", "foo.png">>

C5_Witness ==
    /\ Loaded
    /\ FooPng \in DOMAIN images
    /\ CoverPng \notin DOMAIN images
    /\ \E i \in 1..Len(Documents) :
         /\ Written(i)
         /\ Documents[i].markup.img = <<FooPng, <<"missing.png">> >>
         /\ pages[ChapterPath(i)].img =
              << <<"..", "images", "images", "foo.png">>, <<"missing.png">> >>
         /\ pages[ChapterPath(i)].svg = Documents[i].markup.svg

(***************************************************************************)
(* C6: _save_images visits every image item and raises nothing; when it    *)
(* has returned, and for the rest of the run, the asset map holds exactly  *)
(* the names of the image items whose save was logged as done, each mapped *)
(* to images/<name>; and right after it returned those are exactly the     *)
(* image items whose file was written completely.                          *)
(***************************************************************************)
C6_AssetMap ==
    Loaded =>
        LET image_items == ItemsOfKind(book[1], "image")
            image_log == SelectSeq(log, LAMBDA e :
                            e[2] \in {"Saved image", "Error saving image"})
            path(j) == <<"images">> \o image_items[j].name
        IN /\ Len(image_log) = image_index
           /\ pc # "images" => image_index = Len(image_items)
           /\ DOMAIN images =
                { image_items[j].name : j \in { j \in 1..image_index :
                                                  image_log[j][1] = "info" } }
           /\ \A j \in 1..image_index :
                /\ image_log[j][1] = "info" =>
                     /\ image_log[j][3] = path(j)
                     /\ images[image_items[j].name] = path(j)
                /\ image_log[j][1] = "error" => image_log[j][3] = image_items[j].name
                /\ pc = "images" =>
                     (image_items[j].name \in DOMAIN images
                        <=> /\ output_dir \o path(j) \in DOMAIN fs
                            /\ fs[output_dir \o path(j)] = "complete")

C6_Witness ==
    /\ Returned
    /\ generated_files # <<>>
    /\ Len(ItemsOfKind(book[1], "image")) = 2
    /\ ItemsOfKind(book[1], "image")[1].name \notin DOMAIN images
    /\ ItemsOfKind(book[1], "image")[2].name \in DOMAIN images

(***************************************************************************)
(* C7, as claimed: the body of every written page holds two navigation     *)
(* fragments, one as its first and one as its last child.                  *)
(***************************************************************************)
C7_TwoNavigations ==
    \A p \in DOMAIN pages :
        /\ Len(NavigationNodes(pages[p].body)) = 2
        /\ pages[p].body[1].class = "navigation"
        /\ pages[p].body[Len(pages[p].body)].class = "navigation"

(***************************************************************************)
(* C8, as claimed: when convert() has returned, the file chapter_00i.html  *)
(* exists exactly when its path is in the returned list.                   *)
(***************************************************************************)
C8_FileIffReturned ==
    Returned =>
        \A i \in 1..Len(Documents) :
            ChapterPath(i) \in DOMAIN fs <=> ChapterPath(i) \in Range(generated_files)

(***************************************************************************)
(* C9, as claimed: when convert() has returned, index.html has one entry   *)
(* per returned file, the k-th linking to the k-th returned file and       *)
(* carrying the title extracted from the item that file was made from.     *)
(***************************************************************************)
C9_TocMatchesFiles ==
    Returned =>
        /\ Len(toc[1].entries) = Len(generated_files)
        /\ \A k \in DOMAIN toc[1].entries :
             LET target == output_dir \o <<toc[1].entries[k].href>>
             IN /\ k \in DOMAIN generated_files
                /\ target = generated_files[k]
                /\ target \in DOMAIN pages
                /\ \E i \in 1..Len(Documents) :
                     /\ Documents[i].name = pages[target].item
                     /\ ExtractTitle(Documents[i].markup) \in
                          {None, Some(""), Some(toc[1].entries[k].text)}

(***************************************************************************)
(* C10, as claimed: a replaced image reference, resolved against the       *)
(* directory of the page that holds it, is the path the image was saved at.*)
(***************************************************************************)
C10_ReferenceResolves ==
    Loaded =>
        \A i \in 1..Len(Documents) :
            Written(i) =>
                LET m == Documents[i].markup
                    page == pages[ChapterPath(i)]
                    saved(name) == output_dir \o <<"images">> \o name
                IN /\ \A k \in DOMAIN m.img :
                        page.img[k] # m.img[k] =>
                            Resolve(DirName(ChapterPath(i)), page.img[k]) = saved(m.img[k])
                   /\ \A k \in DOMAIN m.svg :
                        page.svg[k] # m.svg[k] =>
                            Resolve(DirName(ChapterPath(i)), page.svg[k]) = saved(m.svg[k])
====
